---- MODULE Spec2Model ----
(***************************************************************************)
(* Model of the usql session layer: the credential lookup of env.go        *)
(* (PassFileEntry, readPassEntries, matchPassEntry), the argument resolver *)
(* of env.go (Unquote, Getvar, unquote) and the construction of the        *)
(* command index in the metacmd package's init().                          *)
(*                                                                         *)
(* A Go string is a sequence of symbols.  A symbol is one of the special   *)
(* characters ":", "#", " ", "*", "'", "\"" or a word that stands for a    *)
(* run of characters none of which is special ("alice", "5432").           *)
(* Go indices are 0-based; where an index of the source appears in a       *)
(* result or in a recorded read it keeps its Go value.                     *)
(***************************************************************************)
EXTENDS Integers, Sequences, FiniteSets, TLC

VARIABLES
    \* ---- environment of PassFileEntry
    goos,       \* runtime.GOOS
    fsStat,     \* outcome of os.Stat on the pass file path
    fsDir,      \* the path is a directory
    fsMode,     \* permission bits of the path
    fsFile,     \* the lines of the pass file
    \* ---- one call of PassFileEntry
    pc,         \* position in PassFileEntry
    v,          \* the *dburl.URL argument (its User part)
    username,   \* local variable username
    fi,         \* local variable fi (os.FileInfo or nil)
    entries,    \* local variable entries
    n,          \* local variable n, the normalized identity
    ret,        \* what PassFileEntry returned (or how it ended)
    ops,        \* file-system operations the call has performed
    keys,       \* Go indices of entry fields the call has compared
    \* ---- one call of Unquote
    vars,       \* the session variables (package variable vars)
    tok,        \* the argument s of Unquote
    upc,        \* position of the Unquote call
    uret,       \* what Unquote returned
    \* ---- metacmd init()
    rpc,        \* position in the set-up loop
    ri,         \* loop variable i
    aliasesLeft,\* aliases of cmds[i] the inner range loop has not visited
    cmdMap,     \* package variable cmdMap
    sectMap,    \* package variable sectMap
    inserts     \* number of assignments made to each key of cmdMap

passVars == <<goos, fsStat, fsDir, fsMode, fsFile, pc, v, username, fi, entries,
              n, ret, ops, keys>>
unqVars  == <<vars, tok, upc, uret>>
regVars  == <<rpc, ri, aliasesLeft, cmdMap, sectMap, inserts>>
allVars  == <<passVars, unqVars, regVars>>

\* ---- bounds of the model
MaxLines  == 2      \* lines in the pass file
MaxIdLen  == 7      \* components of a normalized identity
MaxTokLen == 4      \* symbols in an Unquote argument

(***************************************************************************)
(* String helpers (strings, regexp).                                       *)
(***************************************************************************)
Star == <<"*">>

RECURSIVE FirstHash(_, _)
FirstHash(s, i) ==
    IF i > Len(s) THEN 0 ELSE IF s[i] = "#" THEN i ELSE FirstHash(s, i + 1)

\* commentRE.ReplaceAllString(s, ""), commentRE = `#.*`
StripComment(s) ==
    LET h == FirstHash(s, 1) IN IF h = 0 THEN s ELSE SubSeq(s, 1, h - 1)

RECURSIVE TrimLeft(_)
TrimLeft(s) ==
    IF s # <<>> /\ Head(s) = " " THEN TrimLeft(Tail(s)) ELSE s

RECURSIVE TrimRight(_)
TrimRight(s) ==
    IF s # <<>> /\ s[Len(s)] = " " THEN TrimRight(SubSeq(s, 1, Len(s) - 1)) ELSE s

\* strings.TrimSpace
TrimSpace(s) == TrimRight(TrimLeft(s))

RECURSIVE SplitFrom(_, _, _)
SplitFrom(s, i, cur) ==
    IF i > Len(s) THEN <<cur>>
    ELSE IF s[i] = ":" THEN <<cur>> \o SplitFrom(s, i + 1, <<>>)
    ELSE SplitFrom(s, i + 1, Append(cur, s[i]))

\* strings.Split(s, ":")
Split(s) == SplitFrom(s, 1, <<>>)

(***************************************************************************)
(* Results of PassFileEntry.                                               *)
(***************************************************************************)
NoStr == <<>>

RetNil == [val |-> "nil", user |-> NoStr, pass |-> NoStr,
           err |-> "nil", line |-> 0, field |-> 0]

RetErr(e, l, f) == [val |-> "nil", user |-> NoStr, pass |-> NoStr,
                    err |-> e, line |-> l, field |-> f]

\* url.UserPassword(u, p)
RetUser(u, p) == [val |-> "userinfo", user |-> u, pass |-> p,
                  err |-> "nil", line |-> 0, field |-> 0]

\* a run-time panic ends the call without a return value
RetPanic(what) == [val |-> "none", user |-> NoStr, pass |-> NoStr,
                   err |-> what, line |-> 0, field |-> 0]

NilDeref   == "panic: nil pointer dereference"
OutOfRange == "panic: index out of range"
Panics     == {NilDeref, OutOfRange}

NilFi == [nil |-> TRUE, isDir |-> FALSE, mode |-> 0]

(***************************************************************************)
(* PassFileEntry: the conditions and helpers of env.go.                    *)
(***************************************************************************)
\* v.User != nil and v.User.Password() reports a password
PasswordDefined_NoEarlyReturn(url) == FALSE

PasswordDefined(url) == url.hasUser /\ url.hasPassword

\* mask 0x07: only the bits of "other" are tested
BadMode_OtherOnly(os, mode) == os # "windows" /\ mode % 8 # 0

\* runtime.GOOS != "windows" && fi.Mode()&0x3f != 0   (0x3f = 64 - 1)
BadMode(os, mode) == os # "windows" /\ mode % 64 # 0

\* index (Go) of the first empty field of v, or -1
RECURSIVE FirstEmpty(_, _)
FirstEmpty(flds, j) ==
    IF j >= Len(flds) THEN -1
    ELSE IF flds[j + 1] = <<>> THEN j ELSE FirstEmpty(flds, j + 1)

RECURSIVE scanLines(_, _, _)
scanLines(file, i, acc) ==
    IF i > Len(file) THEN [err |-> "nil", line |-> 0, field |-> 0, entries |-> acc]
    ELSE LET line == TrimSpace(StripComment(file[i]))
             flds == Split(line)
         IN  IF line = <<>> THEN scanLines(file, i + 1, acc)
             ELSE IF Len(flds) # 6
                  THEN [err |-> "BadPassFileLine", line |-> i, field |-> 0,
                        entries |-> <<>>]
             ELSE IF FirstEmpty(flds, 0) # -1
                  THEN [err |-> "BadPassFileFieldEmpty", line |-> i,
                        field |-> FirstEmpty(flds, 0), entries |-> <<>>]
             ELSE scanLines(file, i + 1, Append(acc, flds))

\* a line with the wrong number of fields is skipped, not fatal
RECURSIVE scanLines_Skip(_, _, _)
scanLines_Skip(file, i, acc) ==
    IF i > Len(file) THEN [err |-> "nil", line |-> 0, field |-> 0, entries |-> acc]
    ELSE LET line == TrimSpace(StripComment(file[i]))
             flds == Split(line)
         IN  IF line = <<>> \/ Len(flds) # 6 THEN scanLines_Skip(file, i + 1, acc)
             ELSE IF FirstEmpty(flds, 0) # -1
                  THEN [err |-> "BadPassFileFieldEmpty", line |-> i,
                        field |-> FirstEmpty(flds, 0), entries |-> <<>>]
             ELSE scanLines_Skip(file, i + 1, Append(acc, flds))

readPassEntries_SkipBadLines(openOK, file) ==
    IF ~openOK THEN [err |-> "OpenFailed", line |-> 0, field |-> 0, entries |-> <<>>]
    ELSE scanLines_Skip(file, 1, <<>>)

readPassEntries(openOK, file) ==
    IF ~openOK THEN [err |-> "OpenFailed", line |-> 0, field |-> 0, entries |-> <<>>]
    ELSE scanLines(file, 1, <<>>)

\* the loop of matchPassEntry from Go index i on; read = the Go indices of
\* entry that were compared with a component of n (entry[i] with i >=
\* len(entry) is the index-out-of-range panic)
RECURSIVE matchFrom(_, _, _)
matchFrom(id, entry, i) ==
    IF i >= Len(id)
    THEN [ok |-> TRUE, u |-> entry[5], p |-> entry[6], panic |-> FALSE,
          read |-> 0 .. (i - 1)]
    ELSE IF i >= Len(entry)
    THEN [ok |-> FALSE, u |-> NoStr, p |-> NoStr, panic |-> TRUE, read |-> 0 .. i]
    ELSE IF entry[i + 1] # Star /\ entry[i + 1] # id[i + 1]
    THEN [ok |-> FALSE, u |-> NoStr, p |-> NoStr, panic |-> FALSE, read |-> 0 .. i]
    ELSE matchFrom(id, entry, i + 1)

\* the wildcard is not honoured: only an equal field matches
RECURSIVE matchFrom_NoWildcard(_, _, _)
matchFrom_NoWildcard(id, entry, i) ==
    IF i >= Len(id)
    THEN [ok |-> TRUE, u |-> entry[5], p |-> entry[6], panic |-> FALSE,
          read |-> 0 .. (i - 1)]
    ELSE IF i >= Len(entry)
    THEN [ok |-> FALSE, u |-> NoStr, p |-> NoStr, panic |-> TRUE, read |-> 0 .. i]
    ELSE IF entry[i + 1] # id[i + 1]
    THEN [ok |-> FALSE, u |-> NoStr, p |-> NoStr, panic |-> FALSE, read |-> 0 .. i]
    ELSE matchFrom_NoWildcard(id, entry, i + 1)

matchPassEntry_NoWildcard(id, entry) == matchFrom_NoWildcard(id, entry, 0)

matchPassEntry(id, entry) == matchFrom(id, entry, 0)

\* the name is replaced whenever the connection has one
substituteUser_Always(u, name) == IF name # NoStr THEN name ELSE u

\* if u == "*" { u = username }
substituteUser(u, name) == IF u = Star THEN name ELSE u

\* the for loop over entries, from entry k on
RECURSIVE findEntry(_, _, _, _, _)
findEntry(id, es, name, k, seen) ==
    IF k > Len(es) THEN [ret |-> RetNil, keys |-> seen]
    ELSE LET m == matchPassEntry(id, es[k]) IN
         IF m.panic THEN [ret |-> RetPanic(OutOfRange), keys |-> seen \cup m.read]
         ELSE IF m.ok
              THEN [ret |-> RetUser(substituteUser(m.u, name), m.p),
                    keys |-> seen \cup m.read]
         ELSE findEntry(id, es, name, k + 1, seen \cup m.read)

(***************************************************************************)
(* Inputs of PassFileEntry.                                                *)
(***************************************************************************)
RECURSIVE Join(_)
Join(flds) ==
    IF Len(flds) = 0 THEN <<>>
    ELSE IF Len(flds) = 1 THEN flds[1]
    ELSE flds[1] \o <<":">> \o Join(Tail(flds))

LineBlank    == <<" ">>
LineComment  == <<"#", " ", "pg", ":", "h">>
LineFive     == Join(<<Star, Star, Star, <<"alice">>, <<"secret">>>>)
LineAlice    == Join(<<Star, Star, Star, Star, <<"alice">>, <<"secret">>>>)
LineAnyUser  == Join(<<Star, Star, Star, Star, Star, <<"secret">>>>)
LineBob      == <<" ">> \o Join(<<<<"pg">>, <<"h">>, Star, <<"db">>, <<"bob">>, <<"pw">>>>)
                 \o <<" ", "#", "c", ":">>
LineSeven    == Join(<<<<"pg">>, <<"h">>, Star, <<"db">>, <<"bob">>, <<"pw">>, <<"x">>>>)
LineEmptyFld == Join(<<<<"pg">>, <<>>, Star, <<"db">>, <<"bob">>, <<"pw">>>>)

Lines == {LineBlank, LineComment, LineFive, LineAlice, LineAnyUser, LineBob,
          LineSeven, LineEmptyFld}

RECURSIVE FilesOfLen(_)
FilesOfLen(k) ==
    IF k = 0 THEN {<<>>}
    ELSE {Append(f, l) : f \in FilesOfLen(k - 1), l \in Lines}

Files == UNION {FilesOfLen(k) : k \in 0 .. MaxLines}

\* values a normalized identity takes at Go index i - 1
IdComp(i) ==
    CASE i = 1 -> {<<"pg">>, <<"my">>}
      [] i = 2 -> {<<"h">>}
      [] i = 3 -> {<<>>, <<"5432">>}
      [] i = 4 -> {<<"db">>}
      [] i = 5 -> {<<"bob">>, <<"alice">>}
      [] i = 6 -> {<<"pw">>, <<"secret">>}
      [] OTHER -> {<<"x">>}

RECURSIVE IdsOfLen(_)
IdsOfLen(k) ==
    IF k = 0 THEN {<<>>}
    ELSE {Append(p, c) : p \in IdsOfLen(k - 1), c \in IdComp(k)}

Identities == UNION {IdsOfLen(k) : k \in 1 .. MaxIdLen}

URLs == {[hasUser |-> FALSE, name |-> NoStr, hasPassword |-> FALSE],
         [hasUser |-> TRUE, name |-> <<"bob">>, hasPassword |-> FALSE],
         [hasUser |-> TRUE, name |-> <<"bob">>, hasPassword |-> TRUE]}

NoURL == [hasUser |-> FALSE, name |-> NoStr, hasPassword |-> FALSE]

Modes == {384, 448, 416, 392, 388}    \* 0600, 0700, 0640, 0610, 0604

(***************************************************************************)
(* PassFileEntry, block by block.                                          *)
(***************************************************************************)
IdlePass ==
    /\ goos = "linux" /\ fsStat = "notexist" /\ fsDir = FALSE /\ fsMode = 0
    /\ fsFile = <<>> /\ pc = "idle" /\ v = NoURL /\ username = NoStr
    /\ fi = NilFi /\ entries = <<>> /\ n = <<>> /\ ret = RetNil
    /\ ops = {} /\ keys = {}

InitPass ==
    /\ goos \in {"linux", "windows"}
    /\ fsStat \in {"ok", "notexist", "error"}
    /\ fsDir \in BOOLEAN
    /\ fsMode \in Modes \cup {0}
    /\ fsFile \in Files
    \* only what exists has a kind and a mode, only a regular file has lines
    /\ fsStat # "ok" => fsDir = FALSE /\ fsMode = 0
    /\ fsStat = "ok" => fsMode \in Modes
    /\ (fsStat # "ok" \/ fsDir) => fsFile = <<>>
    /\ pc = "start" /\ v = NoURL /\ username = NoStr
    /\ fi = NilFi /\ entries = <<>> /\ n = <<>> /\ ret = RetNil
    /\ ops = {} /\ keys = {}

Return(r) == ret' = r /\ pc' = "done"

\* var username string; if v.User != nil { ...; if password set: return nil, nil }
CheckPassword ==
    /\ pc = "start"
    /\ \E url \in URLs :
        /\ v' = url
        /\ username' = IF url.hasUser THEN url.name ELSE NoStr
        /\ IF PasswordDefined(url)
           THEN Return(RetNil)
           ELSE pc' = "stat" /\ ret' = ret
    /\ UNCHANGED <<goos, fsStat, fsDir, fsMode, fsFile, fi, entries, n, ops, keys>>
    /\ UNCHANGED <<unqVars, regVars>>

\* fi, err := os.Stat(path); if os.IsNotExist(err) { return nil, nil }
StatPassFile ==
    /\ pc = "stat"
    /\ ops' = ops \cup {"Stat"}
    /\ fi' = IF fsStat = "ok" THEN [nil |-> FALSE, isDir |-> fsDir, mode |-> fsMode]
             ELSE NilFi
    /\ IF fsStat = "notexist"
       THEN Return(RetNil)
       ELSE pc' = "isdir" /\ ret' = ret
    /\ UNCHANGED <<goos, fsStat, fsDir, fsMode, fsFile, v, username, entries, n, keys>>
    /\ UNCHANGED <<unqVars, regVars>>

\* if fi.IsDir() { return nil, BadPassFile }; fi is nil after a failed Stat
CheckIsDir ==
    /\ pc = "isdir"
    /\ ops' = ops \cup {"IsDir"}
    /\ IF fi.nil THEN Return(RetPanic(NilDeref))
       ELSE IF fi.isDir THEN Return(RetErr("BadPassFile", 0, 0))
       ELSE pc' = "mode" /\ ret' = ret
    /\ UNCHANGED <<goos, fsStat, fsDir, fsMode, fsFile, v, username, fi, entries, n, keys>>
    /\ UNCHANGED <<unqVars, regVars>>

\* if runtime.GOOS != "windows" && fi.Mode()&0x3f != 0 { return nil, BadPassFileMode }
CheckMode ==
    /\ pc = "mode"
    /\ ops' = IF goos # "windows" THEN ops \cup {"Mode"} ELSE ops
    /\ IF BadMode(goos, fi.mode)
       THEN Return(RetErr("BadPassFileMode", 0, 0))
       ELSE pc' = "read" /\ ret' = ret
    /\ UNCHANGED <<goos, fsStat, fsDir, fsMode, fsFile, v, username, fi, entries, n, keys>>
    /\ UNCHANGED <<unqVars, regVars>>

\* entries, err := readPassEntries(path); if err != nil { return nil, err }
ReadEntries ==
    /\ pc = "read"
    /\ \E openOK \in BOOLEAN :
        LET r == readPassEntries(openOK, fsFile) IN
        /\ ops' = ops \cup (IF openOK THEN {"Open", "Read"} ELSE {"Open"})
        /\ IF r.err # "nil"
           THEN Return(RetErr(r.err, r.line, r.field)) /\ entries' = entries
           ELSE pc' = "normalize" /\ ret' = ret /\ entries' = r.entries
    /\ UNCHANGED <<goos, fsStat, fsDir, fsMode, fsFile, v, username, fi, n, keys>>
    /\ UNCHANGED <<unqVars, regVars>>

\* n := strings.Split(v.Normalize(":", "", 3), ":"); if len(n) < 3 { return error }
NormalizeURL ==
    /\ pc = "normalize"
    /\ \E id \in Identities :
        /\ n' = id
        /\ IF Len(id) < 3
           THEN Return(RetErr("NormalizeFailed", 0, 0))
           ELSE pc' = "scan" /\ ret' = ret
    /\ UNCHANGED <<goos, fsStat, fsDir, fsMode, fsFile, v, username, fi, entries, ops, keys>>
    /\ UNCHANGED <<unqVars, regVars>>

\* for _, entry := range entries { ... }; return nil, nil
ScanEntries ==
    /\ pc = "scan"
    /\ LET r == findEntry(n, entries, username, 1, {}) IN
        /\ keys' = r.keys
        /\ Return(r.ret)
    /\ UNCHANGED <<goos, fsStat, fsDir, fsMode, fsFile, v, username, fi, entries, n, ops>>
    /\ UNCHANGED <<unqVars, regVars>>

(***************************************************************************)
(* Unquote, Getvar and unquote of env.go.  The argument is a sequence of   *)
(* characters.                                                             *)
(***************************************************************************)
Quotes == {"'", "\""}

StrOK(s)  == [v |-> s, err |-> "nil"]
StrErr(e) == [v |-> NoStr, err |-> e]

\* unquote(s, c)
unquote(s, c) ==
    IF Len(s) < 2 \/ s[Len(s)] # c THEN StrErr("ErrUnterminatedString")
    ELSE StrOK(SubSeq(s, 2, Len(s) - 1))

\* Getvar(s), s not empty
Getvar(s) ==
    LET quoted == s[1] \in Quotes
        uq     == unquote(s, s[1])
        q      == IF quoted THEN <<s[1]>> ELSE <<>>
        nm     == IF quoted THEN uq.v ELSE s
    IN  IF quoted /\ uq.err # "nil" THEN [ok |-> FALSE, v |-> NoStr, err |-> uq.err]
        ELSE IF nm \in DOMAIN vars
             THEN [ok |-> TRUE, v |-> q \o vars[nm] \o q, err |-> "nil"]
        ELSE [ok |-> FALSE, v |-> s, err |-> "nil"]

\* the value Getvar hands back is returned also when the variable is unknown
Unquote_ReturnsLookup(s) ==
    IF s = <<>> THEN StrOK(NoStr)
    ELSE IF Len(s) > 1 /\ s[1] = ":"
         THEN LET g == Getvar(Tail(s)) IN
              IF g.err # "nil" THEN StrErr(g.err) ELSE StrOK(g.v)
    ELSE IF Len(s) > 1 /\ s[1] \in Quotes THEN unquote(s, s[1])
    ELSE StrOK(s)

Unquote(s) ==
    IF s = <<>> THEN StrOK(NoStr)
    ELSE IF Len(s) > 1 /\ s[1] = ":"
         THEN LET g == Getvar(Tail(s)) IN
              IF g.err # "nil" THEN StrErr(g.err)
              ELSE IF g.ok THEN StrOK(g.v)
              ELSE StrOK(s)
    ELSE IF Len(s) > 1 /\ s[1] \in Quotes THEN unquote(s, s[1])
    ELSE StrOK(s)

TokChars == {":", "'", "\"", "a"}

RECURSIVE ToksOfLen(_)
ToksOfLen(k) ==
    IF k = 0 THEN {<<>>}
    ELSE {Append(t, c) : t \in ToksOfLen(k - 1), c \in TokChars}

Tokens == UNION {ToksOfLen(k) : k \in 0 .. MaxTokLen}

VarNames  == {<<"a">>, <<"a", "a">>}
VarStores == {[nm \in D |-> <<"x">>] : D \in SUBSET VarNames}

IdleUnq == vars = <<>> /\ tok = <<>> /\ upc = "idle" /\ uret = StrOK(NoStr)

InitUnq == vars \in VarStores /\ tok \in Tokens /\ upc = "call" /\ uret = StrOK(NoStr)

CallUnquote ==
    /\ upc = "call"
    /\ uret' = Unquote(tok)
    /\ upc' = "done"
    /\ UNCHANGED <<vars, tok>>
    /\ UNCHANGED <<passVars, regVars>>

(***************************************************************************)
(* metacmd init(): the command table and the loop that sets up cmdMap and  *)
(* sectMap.                                                                *)
(***************************************************************************)
Cmd(sec, name, aliases) == [Section |-> sec, Name |-> name, Aliases |-> aliases]

\* cmds[1] .. cmds[12], in the order of the composite literal; cmds[None] is
\* the zero Cmd the loop skips
cmds == <<
    Cmd("SectionHelp",        "?",         {"?", "? "}),
    Cmd("SectionGeneral",     "q",         {"quit"}),
    Cmd("SectionGeneral",     "copyright", {}),
    Cmd("SectionConnection",  "conninfo",  {}),
    Cmd("SectionConnection",  "password",  {"passwd"}),
    Cmd("SectionQueryBuffer", "p",         {"print", "raw"}),
    Cmd("SectionQueryBuffer", "r",         {"reset"}),
    Cmd("SectionTransaction", "begin",     {"commit", "rollback"}),
    Cmd("SectionVariables",   "prompt",    {}),
    Cmd("SectionVariables",   "set",       {}),
    Cmd("SectionVariables",   "unset",     {}),
    Cmd("SectionFormatting",  "pset",      {"a", "C", "f", "H", "T", "t", "x"}) >>

None == 0

\* m[k] = x on a Go map
MapPut(m, k, x) == [y \in DOMAIN m \cup {k} |-> IF y = k THEN x ELSE m[y]]

Count(m, k) == IF k \in DOMAIN m THEN m[k] ELSE 0

\* cmdMap[key] = mc
Register(key, mc) ==
    /\ cmdMap' = MapPut(cmdMap, key, mc)
    /\ inserts' = MapPut(inserts, key, Count(inserts, key) + 1)

IdleReg ==
    /\ rpc = "idle" /\ ri = 0 /\ aliasesLeft = {}
    /\ cmdMap = <<>> /\ sectMap = <<>> /\ inserts = <<>>

\* cmdMap = make(...); sectMap = make(...)
InitReg ==
    /\ rpc = "loop" /\ ri = 0 /\ aliasesLeft = {}
    /\ cmdMap = <<>> /\ sectMap = <<>> /\ inserts = <<>>

\* if mc == None { continue }
SkipNone ==
    /\ rpc = "loop" /\ ri <= Len(cmds) /\ ri = None
    /\ ri' = ri + 1
    /\ UNCHANGED <<rpc, aliasesLeft, cmdMap, sectMap, inserts>>
    /\ UNCHANGED <<passVars, unqVars>>

\* cmdMap[c.Name] = mc
RegisterName ==
    /\ rpc = "loop" /\ ri <= Len(cmds) /\ ri # None
    /\ Register(cmds[ri].Name, ri)
    /\ aliasesLeft' = cmds[ri].Aliases
    /\ rpc' = "aliases"
    /\ UNCHANGED <<ri, sectMap>>
    /\ UNCHANGED <<passVars, unqVars>>

\* for alias := range c.Aliases { cmdMap[alias] = mc }, in the order the map
\* iteration happens to take
RegisterAlias ==
    /\ rpc = "aliases"
    /\ \E alias \in aliasesLeft :
        /\ Register(alias, ri)
        /\ aliasesLeft' = aliasesLeft \ {alias}
    /\ UNCHANGED <<rpc, ri, sectMap>>
    /\ UNCHANGED <<passVars, unqVars>>

\* sectMap[c.Section] = append(sectMap[c.Section], mc)
AppendSection ==
    /\ rpc = "aliases" /\ aliasesLeft = {}
    /\ LET sec == cmds[ri].Section
           old == IF sec \in DOMAIN sectMap THEN sectMap[sec] ELSE <<>>
       IN  sectMap' = MapPut(sectMap, sec, Append(old, ri))
    /\ ri' = ri + 1
    /\ rpc' = "loop"
    /\ UNCHANGED <<aliasesLeft, cmdMap, inserts>>
    /\ UNCHANGED <<passVars, unqVars>>

\* the range loop over cmds ends
EndInit ==
    /\ rpc = "loop" /\ ri > Len(cmds)
    /\ rpc' = "done"
    /\ UNCHANGED <<ri, aliasesLeft, cmdMap, sectMap, inserts>>
    /\ UNCHANGED <<passVars, unqVars>>

(***************************************************************************)
(* Specifications.                                                         *)
(***************************************************************************)
Init == InitPass /\ IdleUnq /\ IdleReg

Next ==
    \/ CheckPassword
    \/ StatPassFile
    \/ CheckIsDir
    \/ CheckMode
    \/ ReadEntries
    \/ NormalizeURL
    \/ ScanEntries

\* one call of PassFileEntry
Spec == Init /\ [][Next]_allVars

InitUnquote == IdlePass /\ InitUnq /\ IdleReg

NextUnquote == CallUnquote

\* one call of Unquote
SpecUnquote == InitUnquote /\ [][NextUnquote]_allVars

InitRegistry == IdlePass /\ IdleUnq /\ InitReg

NextRegistry ==
    \/ SkipNone
    \/ RegisterName
    \/ RegisterAlias
    \/ AppendSection
    \/ EndInit

\* the set-up loop of init()
SpecRegistry == InitRegistry /\ [][NextRegistry]_allVars

(***************************************************************************)
(* Vocabulary of the properties.                                           *)
(***************************************************************************)
Min(S) == CHOOSE x \in S : \A y \in S : x <= y

\* the name the connection URL carries ("" when it has no user part)
URLName == IF v.hasUser THEN v.name ELSE NoStr

\* the call got as far as reading the lines of the pass file
Parsed == pc = "done" /\ "Read" \in ops

\* the call got as far as looking for an entry
Scanned == pc = "done" /\ Len(n) >= 3

Content(l) == TrimSpace(StripComment(l))

\* a non-blank, non-comment line that does not split into 6 fields
WrongCount(l) == Content(l) # <<>> /\ Len(Split(Content(l))) # 6

\* a non-blank, non-comment line the parser rejects
Malformed(l) ==
    /\ Content(l) # <<>>
    /\ \/ Len(Split(Content(l))) # 6
       \/ \E j \in 1 .. Len(Split(Content(l))) : Split(Content(l))[j] = <<>>

MalformedAt(file) == {i \in 1 .. Len(file) : Malformed(file[i])}

\* the entry's field at every component index is "*" or the component
Matches(id, e) ==
    \A i \in 1 .. Len(id) : i <= Len(e) /\ (e[i] = Star \/ e[i] = id[i])

MatchingAt(id, es) == {k \in 1 .. Len(es) : Matches(id, es[k])}

Alice  == <<"alice">>
Secret == <<"secret">>

(***************************************************************************)
(* Properties.                                                             *)
(***************************************************************************)

\* C1: off Windows, when the pass file exists, is no directory and its mode
\* has a group or other bit set, a lookup (a call whose URL carries no
\* password) ends with the bad-permissions error, whatever the file holds.
C1_BadModeFailsLookup ==
    (/\ pc = "done" /\ ~v.hasPassword
     /\ goos # "windows" /\ fsStat = "ok" /\ ~fsDir /\ fsMode % 64 # 0)
    => ret = RetErr("BadPassFileMode", 0, 0)

\* C1 witness: a group-readable file holding an entry that matches anything.
C1_Witness ==
    /\ pc = "done" /\ goos = "linux" /\ fsMode = 416
    /\ fsFile = <<LineAlice>>
    /\ ret.err = "BadPassFileMode"

C4_FiveFieldLine ==
    (Parsed /\ fsFile = <<LineFive>>)
    => (ret = RetUser(Alice, Secret) \/ ret.err = "NormalizeFailed")

\* C4 amended: the only entry is the six-field line *:*:*:*:alice:secret;
\* it matches every identity of 3 or 4 components and the lookup yields
\* alice / secret.
C4_SixFieldWildcard ==
    (pc = "done" /\ fsFile = <<LineAlice>> /\ Len(n) \in {3, 4})
    => ret = RetUser(Alice, Secret)

\* C4 witness: a four-component identity resolved by the wildcard line.
C4_Witness ==
    /\ pc = "done" /\ fsFile = <<LineAlice>> /\ Len(n) = 4
    /\ n[1] = <<"my">> /\ ret.user = Alice /\ ret.pass = Secret

\* C5: a URL that carries a password gets nil and no error, and the pass
\* file is not stat'ed, checked, opened or read, whatever its state.
C5_ExplicitPasswordWins ==
    (pc = "done" /\ v.hasPassword)
    => (ret = RetNil /\ ops = {} /\ keys = {} /\ entries = <<>>)

\* C5 witness: password in the URL, pass file group-readable and malformed.
C5_Witness ==
    /\ pc = "done" /\ v.hasPassword
    /\ fsStat = "ok" /\ fsMode = 416 /\ fsFile = <<LineSeven>> /\ goos = "linux"

\* C8: the name returned with a match is the URL's name when the entry's
\* username field is "*" and the field itself otherwise; the password is the
\* entry's password field.
C8_UsernameSubstitution ==
    (pc = "done" /\ ret.val = "userinfo")
    => LET e == entries[Min(MatchingAt(n, entries))] IN
       /\ e[5] = Star => ret.user = URLName
       /\ e[5] # Star => ret.user = e[5]
       /\ ret.pass = e[6]

\* C8 witness: a "*" username field replaced by the URL's name bob, while
\* a later entry names another user.
C8_Witness ==
    /\ pc = "done" /\ fsFile = <<LineAnyUser, LineAlice>>
    /\ v.hasUser /\ ret = RetUser(<<"bob">>, Secret)

\* C9: with an identity of 3 or more components, only the entry fields at
\* Go indices 0 to 3 are compared with a component: the username field (4),
\* the password field (5) and any index from 6 on are never read as keys.
C9_KeysAreFirstFour ==
    Scanned => keys \subseteq 0 .. 3

\* C10: whatever os.Stat answers, the call returns normally; a missing file
\* gives nil without an error, and fi is inspected only after a Stat that
\* succeeded.
C10_StatOutcomesHandled ==
    /\ (pc = "done" /\ fsStat # "ok") => ret.err \notin Panics
    /\ (pc = "done" /\ fsStat = "notexist") => ret = RetNil
    /\ ({"IsDir", "Mode"} \cap ops # {}) => fsStat = "ok"

\* the remainder of a ":" token is a bare name or a terminated quoted string
WellQuoted(r) == r[1] \notin Quotes \/ (Len(r) >= 2 /\ r[Len(r)] = r[1])

\* the name a ":" token refers to, for a well-quoted remainder r
RefName(r) == IF r[1] \in Quotes THEN SubSeq(r, 2, Len(r) - 1) ELSE r

\* the token refers to a name that is a session variable
RefKnown(t) == WellQuoted(Tail(t)) /\ RefName(Tail(t)) \in DOMAIN vars

VarRef(t) == Len(t) >= 2 /\ t[1] = ":"

\* C6 as stated: every token of 2 or more characters that starts with ":"
\* and does not name a known variable comes back unchanged, without an error.
C6_UnknownVarUnchanged ==
    (upc = "done" /\ VarRef(tok) /\ ~RefKnown(tok)) => uret = StrOK(tok)

\* C6 amended: as stated, for tokens whose remainder after ":" is a bare
\* name or a quoted string ending in the quote character it starts with.
C6_UnknownWellQuotedVarUnchanged ==
    (upc = "done" /\ VarRef(tok) /\ WellQuoted(Tail(tok)) /\ ~RefKnown(tok))
    => uret = StrOK(tok)

\* C6 witness: :'a' with no variable a comes back as it was.
C6_Witness ==
    /\ upc = "done" /\ tok = <<":", "'", "a", "'">>
    /\ <<"a">> \notin DOMAIN vars /\ <<"a", "a">> \in DOMAIN vars
    /\ uret = StrOK(tok)

RECURSIVE DeclaredKeys(_)
\* canonical names plus aliases declared by cmds[1 .. k]
DeclaredKeys(k) ==
    IF k = 0 THEN 0
    ELSE 1 + Cardinality(cmds[k].Aliases) + DeclaredKeys(k - 1)

\* C7: while the index is built no key is assigned twice, and the finished
\* index has as many keys as the table declares names and aliases.
C7_KeysDistinct ==
    /\ \A k \in DOMAIN inserts : inserts[k] <= 1
    /\ rpc = "done" => Cardinality(DOMAIN cmdMap) = DeclaredKeys(Len(cmds))

====
